---- MODULE Spec2Model ----
(***************************************************************************)
(* A model of the RESP key-value server: the RESP parser (src/resp.rs),    *)
(* the command interpreter (src/commads.rs) and the server loop            *)
(* (src/server.rs).                                                        *)
(*                                                                         *)
(* Text is a sequence of one-character strings.  Text the program builds   *)
(* with format! is a sequence of pieces (literal fragments and characters).*)
(* Time is in milliseconds.                                                *)
(***************************************************************************)
EXTENDS Integers, Sequences, FiniteSets, TLC

VARIABLES
    streams,      \* Server.streams: the live connections, in insertion order
    to_close,     \* Server.to_close: indices (0-based) marked for removal
    shutdown,     \* Server.shutdown
    storage,      \* Server.storage: key -> StoredValue
    replication,  \* Server.replication
    pc,           \* position of the control loop of Server::run
    idx,          \* index (0-based) of the stream poll_streams is at
    now,          \* the monotonic clock (Instant::now()), in ms
    backlog,      \* connections waiting in the listener's accept queue
    connected,    \* number of connections the clients have opened so far
    inbox,        \* per connection: requests sent and not yet read
    sent,         \* the cost of the requests the clients have sent so far
    sock,         \* per connection: "none", "open" or "shut" (shutdown(Both))
    wcount,       \* per connection: number of writes made to it
    last,         \* the outcome of the last iteration of poll_streams
    errd,         \* history: per connection, the kind of the last error text
    lastSet,      \* history: per key, the StoredValue of the last SET on it
    cvalue,       \* codec: the value under test
    cinput,       \* codec: the characters handed to the parser
    cresult,      \* codec: the result of the parse
    cpc           \* codec: position of the codec run

vars == <<streams, to_close, shutdown, storage, replication, pc, idx, now,
          backlog, connected, inbox, sent, sock, wcount, last, errd, lastSet,
          cvalue, cinput, cresult, cpc>>

codecVars == <<cvalue, cinput, cresult, cpc>>

-----------------------------------------------------------------------------
(* Bounds of the model *)

MaxConns == 2

\* the budget of the clients' requests: see SendCost
MaxSendCost == 6

MaxTime == 30

-----------------------------------------------------------------------------
(* Characters *)

CR == "\r"

LF == "\n"

\* the zero byte the read buffer is initialised with
NUL == "NUL"

\* what next() and peek() return at the end of the stream (Option::None)
NoChar == "None"

\* a byte sequence that is not valid UTF-8
BadByte == "0xFF"

Digits == <<"0", "1", "2", "3", "4", "5", "6", "7", "8", "9">>

LowerChars == <<"a", "b", "c", "d", "e", "f", "g", "h", "i", "j", "k", "l", "m",
                "n", "o", "p", "q", "r", "s", "t", "u", "v", "w", "x", "y", "z",
                "é">>

UpperChars == <<"A", "B", "C", "D", "E", "F", "G", "H", "I", "J", "K", "L", "M",
                "N", "O", "P", "Q", "R", "S", "T", "U", "V", "W", "X", "Y", "Z",
                "É">>

IsDigit(c) == \E i \in 1..10 : Digits[i] = c

DigitVal(c) == (CHOOSE i \in 1..10 : Digits[i] = c) - 1

\* char::to_uppercase, on the characters of the model
UpperChar(c) ==
    IF \E i \in 1..Len(LowerChars) : LowerChars[i] = c
    THEN UpperChars[CHOOSE i \in 1..Len(LowerChars) : LowerChars[i] = c]
    ELSE c

\* a to_uppercase that folds nothing: the match is on the token as received
to_uppercase_as_is(s) == s

\* str::to_uppercase
to_uppercase(s) == [i \in 1..Len(s) |-> UpperChar(s[i])]

\* the number of bytes of the UTF-8 encoding of a character
Utf8Len(c) == IF c \in {"é", "É"} THEN 2 ELSE 1

RECURSIVE ByteLen(_)
\* String::len: the length of a string in bytes
ByteLen(s) == IF s = <<>> THEN 0 ELSE Utf8Len(Head(s)) + ByteLen(Tail(s))

RECURSIVE NatToDigits(_)
\* the decimal digits of a natural number (Display for integers)
NatToDigits(n) ==
    IF n < 10 THEN <<Digits[n + 1]>>
    ELSE NatToDigits(n \div 10) \o <<Digits[(n % 10) + 1]>>

\* Display for i64
IntToText(n) == IF n < 0 THEN <<"-">> \o NatToDigits(0 - n) ELSE NatToDigits(n)

RECURSIVE DigitsToNat(_)
\* the value of a non-empty sequence of decimal digits
DigitsToNat(s) ==
    IF Len(s) = 1 THEN DigitVal(s[1])
    ELSE DigitsToNat(SubSeq(s, 1, Len(s) - 1)) * 10 + DigitVal(s[Len(s)])

RECURSIVE DigitsLeq(_, _)
\* a <= b for two digit sequences of the same length
DigitsLeq(a, b) ==
    IF a = <<>> THEN TRUE
    ELSE IF DigitVal(Head(a)) < DigitVal(Head(b)) THEN TRUE
    ELSE IF DigitVal(Head(a)) > DigitVal(Head(b)) THEN FALSE
    ELSE DigitsLeq(Tail(a), Tail(b))

\* the numeral without its leading zeros (the last digit is kept)
StripZeros(s) ==
    IF s = <<>> THEN s
    ELSE LET k == CHOOSE k \in 1..Len(s) :
                      /\ k = Len(s) \/ s[k] # "0"
                      /\ \A m \in 1..(k - 1) : s[m] = "0"
         IN  SubSeq(s, k, Len(s))

\* does the numeral (digits only) denote a number <= the numeral max
NumeralFits(s, max) ==
    LET z == StripZeros(s) IN
    \/ Len(z) < Len(max)
    \/ Len(z) = Len(max) /\ DigitsLeq(z, max)

I64MaxDigits == <<"9","2","2","3","3","7","2","0","3","6","8","5","4","7","7","5","8","0","7">>

I64MinDigits == <<"9","2","2","3","3","7","2","0","3","6","8","5","4","7","7","5","8","0","8">>

UsizeMaxDigits == <<"1","8","4","4","6","7","4","4","0","7","3","7","0","9","5","5","1","6","1","5">>

IsizeMaxDigits == I64MaxDigits

\* the value of a numeral of at most 9 digits; a longer numeral is beyond
\* the integers of the model and is kept as its digits (big)
NumeralValue(ds) ==
    IF Len(StripZeros(ds)) <= 9 THEN DigitsToNat(StripZeros(ds)) ELSE 0

IsBig(ds) == Len(StripZeros(ds)) > 9

\* str::parse::<i64> that drops the sign
ParseI64_unsigned(s) ==
    LET signed == s # <<>> /\ s[1] \in {"+", "-"}
        ds == IF signed THEN Tail(s) ELSE s
    IN  IF ds = <<>> \/ \E i \in 1..Len(ds) : ~IsDigit(ds[i])
        THEN [ok |-> FALSE, n |-> 0, big |-> FALSE, neg |-> FALSE, digits |-> <<>>]
        ELSE IF ~NumeralFits(ds, I64MaxDigits)
        THEN [ok |-> FALSE, n |-> 0, big |-> FALSE, neg |-> FALSE, digits |-> <<>>]
        ELSE [ok |-> TRUE, n |-> NumeralValue(ds), big |-> IsBig(ds), neg |-> FALSE,
              digits |-> IF IsBig(ds) THEN StripZeros(ds) ELSE <<>>]

\* str::parse::<i64>: an optional sign and at least one digit, in range.
\* The result is [ok, n, big, digits].
ParseI64(s) ==
    LET signed == s # <<>> /\ s[1] \in {"+", "-"}
        ds == IF signed THEN Tail(s) ELSE s
        neg == signed /\ s[1] = "-"
    IN  IF ds = <<>> \/ \E i \in 1..Len(ds) : ~IsDigit(ds[i])
        THEN [ok |-> FALSE, n |-> 0, big |-> FALSE, neg |-> FALSE, digits |-> <<>>]
        ELSE IF ~NumeralFits(ds, IF neg THEN I64MinDigits ELSE I64MaxDigits)
        THEN [ok |-> FALSE, n |-> 0, big |-> FALSE, neg |-> FALSE, digits |-> <<>>]
        ELSE [ok |-> TRUE,
              n |-> IF neg THEN 0 - NumeralValue(ds) ELSE NumeralValue(ds),
              big |-> IsBig(ds), neg |-> neg,
              digits |-> IF IsBig(ds) THEN StripZeros(ds) ELSE <<>>]

\* str::parse::<usize>: at least one digit (the caller collects digits only),
\* in range.  The result is [ok, n, big].
ParseUsize(s) ==
    IF s = <<>> \/ ~NumeralFits(s, UsizeMaxDigits)
    THEN [ok |-> FALSE, n |-> 0, big |-> FALSE]
    ELSE [ok |-> TRUE, n |-> NumeralValue(s), big |-> IsBig(s)]

-----------------------------------------------------------------------------
(* RespValue *)

RespVal(t, s, i, b, a) == [t |-> t, s |-> s, i |-> i, b |-> b, a |-> a]

Array(a) == RespVal("Array", <<>>, 0, FALSE, a)

BulkString(s) == RespVal("BulkString", s, 0, FALSE, <<>>)

SimpleString(s) == RespVal("SimpleString", s, 0, FALSE, <<>>)

Integer(i) == RespVal("Integer", <<>>, i, FALSE, <<>>)

\* an Integer of more than 9 digits, kept as its sign and digits
BigInteger(neg, digits) == RespVal("Integer", digits, 0, neg, <<>>)

Boolean(b) == RespVal("Boolean", <<>>, 0, b, <<>>)

SimpleError(s) == RespVal("SimpleError", s, 0, FALSE, <<>>)

\* RespValue::None
Nil == RespVal("None", <<>>, 0, FALSE, <<>>)

Eof == RespVal("Eof", <<>>, 0, FALSE, <<>>)

-----------------------------------------------------------------------------
(* RespParser: the character stream *)

\* the size of the read buffer of poll_streams
BufSize == 1024

\* A character stream: the characters data followed by pad zero bytes.
Stream(data, pad) == [data |-> data, pad |-> pad]

\* RespParser::new on a string (the tests): no padding
StrStream(data) == Stream(data, 0)

StreamLen(inp) == Len(inp.data) + inp.pad

\* the character the i-th call of next() returns (i counts from 1)
CharAt(inp, i) ==
    IF i <= Len(inp.data) THEN inp.data[i]
    ELSE IF i <= StreamLen(inp) THEN NUL
    ELSE NoChar

\* RespParser::peek with idx = i
peek(inp, i) == CharAt(inp, i + 1)

\* the characters next() returns on calls from..to
Chars(inp, from, to) == [j \in 1..(to - from + 1) |-> CharAt(inp, from + j - 1)]

(* RespParseResult *)

Ok(v, i) == [kind |-> "ok", val |-> v, msg |-> <<>>, idx |-> i]

\* RespParser::err
Err(msg, i) == [kind |-> "err", val |-> Nil, msg |-> msg, idx |-> i]

\* a panic (unwrap on Err, capacity overflow) unwinds out of the parser
Panic(i) == [kind |-> "panic", val |-> Nil, msg |-> <<>>, idx |-> i]

\* RespParser::unexpected_eof
unexpected_eof(i) == Err(<<"unexpected eof">>, i)

\* RespParser::correct_sep with idx = i
correct_sep(inp, i) ==
    LET c1 == CharAt(inp, i + 1)
        c2 == CharAt(inp, i + 2)
    IN  IF c1 = NoChar THEN unexpected_eof(i + 1)
        ELSE IF c1 # CR THEN Err(<<"\\r separator expected, found ", c1>>, i + 1)
        ELSE IF c2 = NoChar THEN unexpected_eof(i + 2)
        ELSE IF c2 # LF THEN Err(<<"\\n separator expected, found ", c2>>, i + 2)
        ELSE Ok(Nil, i + 2)

\* the least j >= i with peek(inp, j) not a digit
DigitsEnd(inp, i) ==
    IF i >= StreamLen(inp) THEN i
    ELSE CHOOSE j \in i..StreamLen(inp) :
            /\ ~IsDigit(peek(inp, j))
            /\ \A k \in i..(j - 1) : IsDigit(peek(inp, k))

\* RespParser::parse_int with idx = i
parse_int(inp, i) ==
    LET c0 == peek(inp, i)
        signed == c0 \in {"-", "+"}
        j == IF signed THEN i + 1 ELSE i           \* idx after the sign
        e == DigitsEnd(inp, j)                      \* idx after the digits
        s == Chars(inp, i + 1, e)                   \* the collected string
        stop == peek(inp, e)
        sep == correct_sep(inp, e)
        n == ParseI64(s)
    IN  IF ~signed /\ ~IsDigit(c0) /\ c0 # NoChar
        THEN Err(<<"invalid character while parsing integer '", c0, "'">>, i)
        ELSE IF stop = NoChar THEN Err(<<"Unterminated integer">>, e)
        ELSE IF stop # CR
        THEN Err(<<"invalid char '", stop, "' found while parsing integer">>, e)
        ELSE IF sep.kind # "ok" THEN sep
        ELSE IF ~n.ok THEN Panic(sep.idx)           \* s.parse::<i64>().unwrap()
        ELSE IF n.big THEN Ok(BigInteger(n.neg, n.digits), sep.idx)
        ELSE Ok(Integer(n.n), sep.idx)

\* RespParser::parse_bool with idx = i
parse_bool(inp, i) ==
    LET c == CharAt(inp, i + 1)
        sep == correct_sep(inp, i + 1)
    IN  IF c = NoChar THEN unexpected_eof(i + 1)
        ELSE IF c \notin {"f", "t"}
        THEN Err(<<"invalid value for boolean: '", c, "'">>, i + 1)
        ELSE IF sep.kind # "ok" THEN sep
        ELSE Ok(Boolean(c = "t"), sep.idx)

\* the least j >= i with peek(inp, j) = CR, or the length of the stream
FirstCR(inp, i) ==
    IF \E j \in i..(Len(inp.data) - 1) : inp.data[j + 1] = CR
    THEN CHOOSE j \in i..(Len(inp.data) - 1) :
            /\ inp.data[j + 1] = CR
            /\ \A k \in i..(j - 1) : inp.data[k + 1] # CR
    ELSE IF i > StreamLen(inp) THEN i ELSE StreamLen(inp)

\* RespParser::parse_simple_string with idx = i
parse_simple_string(inp, i) ==
    LET e == FirstCR(inp, i)
        s == Chars(inp, i + 1, e)
        sep == correct_sep(inp, e)
    IN  IF peek(inp, e) = CR
        THEN IF sep.kind # "ok" THEN sep ELSE Ok(SimpleString(s), sep.idx)
        ELSE Ok(SimpleString(s), e)      \* the loop ends at the end of input

\* RespParser::parse_simple_error with idx = i
parse_simple_error(inp, i) ==
    LET r == parse_simple_string(inp, i)
    IN  IF r.kind = "ok" THEN Ok(SimpleError(r.val.s), r.idx)
        ELSE Err(<<"Failed to parse simple error">>, r.idx)

\* RespParser::parse_bulk_string with idx = i
parse_bulk_string(inp, i) ==
    LET e == DigitsEnd(inp, i)
        s == Chars(inp, i + 1, e)
        size == ParseUsize(s)
        sep1 == correct_sep(inp, e)
        \* a size of more than 9 digits is beyond every stream of the model
        beyond == size.big \/ sep1.idx + size.n > StreamLen(inp)
        blk == Chars(inp, sep1.idx + 1, sep1.idx + size.n)
        sep2 == correct_sep(inp, sep1.idx + size.n)
    IN  IF ~size.ok THEN Err(<<"failed to parse bulk string size ">> \o s, e)
        ELSE IF sep1.kind # "ok" THEN sep1
        ELSE IF ~NumeralFits(s, IsizeMaxDigits)
        THEN Panic(sep1.idx)             \* String::with_capacity: capacity overflow
        ELSE IF beyond THEN unexpected_eof(StreamLen(inp) + 1)
        ELSE IF sep2.kind # "ok" THEN sep2
        ELSE Ok(BulkString(blk), sep2.idx)

RECURSIVE parse_next(_, _), parse_elems(_, _, _, _)

\* parse_array whose loop ends after the first element
parse_array_first(inp, i) ==
    LET size == parse_int(inp, i)
    IN  IF size.kind # "ok" THEN size
        ELSE IF size.val.i < 0 \/ size.val.s # <<>>
        THEN Panic(size.idx)
        ELSE parse_elems(inp, size.idx, IF size.val.i > 1 THEN 1 ELSE size.val.i, <<>>)

\* RespParser::parse_array with idx = i
parse_array(inp, i) ==
    LET size == parse_int(inp, i)
    IN  IF size.kind # "ok" THEN size
        ELSE IF size.val.i < 0 \/ size.val.s # <<>>
        THEN Panic(size.idx)             \* Vec::with_capacity(size as usize)
        ELSE parse_elems(inp, size.idx, size.val.i, <<>>)

\* the loop of parse_array: n elements left, arr collected so far
parse_elems(inp, i, n, arr) ==
    IF n = 0 THEN Ok(Array(arr), i)
    ELSE LET v == parse_next(inp, i)
         IN  IF v.kind # "ok" THEN v
             ELSE parse_elems(inp, v.idx, n - 1, Append(arr, v.val))

\* RespParser::parse_next with idx = i
parse_next(inp, i) ==
    LET c == CharAt(inp, i + 1)
    IN  CASE c = "+" -> parse_simple_string(inp, i + 1)
          [] c = ":" -> parse_int(inp, i + 1)
          [] c = "#" -> parse_bool(inp, i + 1)
          [] c = "$" -> parse_bulk_string(inp, i + 1)
          [] c = "*" -> parse_array(inp, i + 1)
          [] c = "-" -> parse_simple_error(inp, i + 1)
          [] c = NoChar -> Ok(Eof, i + 1)
          [] OTHER -> Err(<<"invalid type identifier found: '", c, "'">>, i + 1)

\* Display for RespError
RespErrorText(r) == r.msg \o <<" at ">> \o NatToDigits(r.idx) \o <<", char ", "a">>

-----------------------------------------------------------------------------
(* RespValue::serialize and the Debug format *)

CRLF == <<CR, LF>>

RECURSIVE SerializeBytes(_), SerializeAll(_), Serializable(_)

\* can the value be serialized: Nil and Eof are unsupported, at any depth
Serializable(v) ==
    /\ v.t \notin {"None", "Eof"}
    /\ v.t = "Array" => \A k \in 1..Len(v.a) : Serializable(v.a[k])

\* the wire form of a serializable value
SerializeBytes(v) ==
    CASE v.t = "SimpleString" -> <<"+">> \o v.s \o CRLF
      [] v.t = "SimpleError" -> <<"-">> \o v.s \o CRLF
      [] v.t = "Integer" ->
            <<":">> \o (IF v.s # <<>> THEN (IF v.b THEN <<"-">> ELSE <<>>) \o v.s
                        ELSE IntToText(v.i)) \o CRLF
      [] v.t = "Boolean" -> <<"#", IF v.b THEN "t" ELSE "f">> \o CRLF
      [] v.t = "BulkString" ->
            <<"$">> \o NatToDigits(ByteLen(v.s)) \o CRLF \o v.s \o CRLF
      [] v.t = "Array" ->
            <<"*">> \o NatToDigits(Len(v.a)) \o CRLF \o SerializeAll(v.a)
      [] OTHER -> <<>>

SerializeAll(a) ==
    IF a = <<>> THEN <<>> ELSE SerializeBytes(Head(a)) \o SerializeAll(Tail(a))

RECURSIVE EscapeDebug(_)
\* Debug for str: the characters with the control characters escaped
EscapeDebug(s) ==
    IF s = <<>> THEN <<>>
    ELSE (CASE Head(s) = CR -> <<"\\", "r">>
            [] Head(s) = LF -> <<"\\", "n">>
            [] Head(s) = NUL -> <<"\\", "0">>
            [] Head(s) = "\"" -> <<"\\", "\"">>
            [] Head(s) = "\\" -> <<"\\", "\\">>
            [] OTHER -> <<Head(s)>>) \o EscapeDebug(Tail(s))

RECURSIVE DebugText(_), DebugList(_)

\* derive(Debug) for RespValue
DebugText(v) ==
    CASE v.t \in {"SimpleString", "BulkString", "SimpleError"} ->
            <<v.t, "(", "\"">> \o EscapeDebug(v.s) \o <<"\"", ")">>
      [] v.t = "Integer" ->
            <<v.t, "(">> \o (IF v.s # <<>> THEN (IF v.b THEN <<"-">> ELSE <<>>) \o v.s
                             ELSE IntToText(v.i)) \o <<")">>
      [] v.t = "Boolean" -> <<v.t, "(", IF v.b THEN "true" ELSE "false", ")">>
      [] v.t = "Array" -> <<v.t, "(", "[">> \o DebugList(v.a) \o <<"]", ")">>
      [] OTHER -> <<v.t>>

DebugList(a) ==
    IF a = <<>> THEN <<>>
    ELSE IF Len(a) = 1 THEN DebugText(a[1])
    ELSE DebugText(a[1]) \o <<", ">> \o DebugList(Tail(a))

-----------------------------------------------------------------------------
(* Command and CommandParser (src/commads.rs) *)

\* Option<Instant>
NoInstant == [some |-> FALSE, at |-> 0]

SomeInstant(t) == [some |-> TRUE, at |-> t]

\* StoredValue::new
StoredValue(value, px) == [value |-> value, px |-> px]

\* the variants of Command, as one record shape
Cmd(c, payload, key, value, info) ==
    [c |-> c, payload |-> payload, key |-> key, value |-> value, info |-> info]

NoStored == StoredValue(<<>>, NoInstant)

CmdPing == Cmd("Ping", Nil, <<>>, NoStored, "")

CmdEcho(v) == Cmd("Echo", v, <<>>, NoStored, "")

CmdShutdown == Cmd("Shutdown", Nil, <<>>, NoStored, "")

CmdSet(key, stored) == Cmd("Set", Nil, key, stored, "")

CmdGet(key) == Cmd("Get", Nil, key, NoStored, "")

CmdInfo(t) == Cmd("Info", Nil, <<>>, NoStored, t)

\* Command::Replconf, of the ReplconfType t
CmdReplconf(t) == Cmd("Replconf", Nil, <<>>, NoStored, t)

(* CommandParseResult *)

CmdOk(cmd) == [ok |-> TRUE, cmd |-> cmd, msg |-> <<>>]

\* CommandParser::err
CmdErr(msg) == [ok |-> FALSE, cmd |-> CmdPing, msg |-> msg]

IsStr(v) == v.t \in {"BulkString", "SimpleString"}

\* the literals the interpreter matches on
PING == <<"P", "I", "N", "G">>

ECHO == <<"E", "C", "H", "O">>

SHUTDOWN == <<"S", "H", "U", "T", "D", "O", "W", "N">>

SET == <<"S", "E", "T">>

GET == <<"G", "E", "T">>

INFO == <<"I", "N", "F", "O">>

PX == <<"P", "X">>

REPLICATION == <<"r", "e", "p", "l", "i", "c", "a", "t", "i", "o", "n">>

\* InfoType::from_str: [ok, t, msg]
InfoType_from_str(value) ==
    IF value = REPLICATION THEN [ok |-> TRUE, t |-> "Replication", msg |-> <<>>]
    ELSE [ok |-> FALSE, t |-> "", msg |-> <<"invalid info specifier ">> \o value]

\* CommandParser::ping
CommandParser_ping == CmdOk(CmdPing)

\* CommandParser::shutdown
CommandParser_shutdown == CmdOk(CmdShutdown)

\* CommandParser::echo taking the element the cursor is on, not the next one
CommandParser_echo_current(it, k) ==
    IF k < Len(it) THEN CmdOk(CmdEcho(it[k]))
    ELSE CmdErr(<<"item after 'ECHO' expected">>)

\* CommandParser::echo, the cursor having consumed k elements of it
CommandParser_echo(it, k) ==
    IF k < Len(it) THEN CmdOk(CmdEcho(it[k + 1]))
    ELSE CmdErr(<<"item after 'ECHO' expected">>)

\* CommandParser::info
CommandParser_info(it, k) ==
    IF k >= Len(it)
    THEN CmdErr(<<"expected infotype sepcifier after INFO command">>)
    ELSE IF ~IsStr(it[k + 1])
    THEN CmdErr(<<"invalid type expected SS or BS got: ">> \o DebugText(it[k + 1]))
    ELSE LET t == InfoType_from_str(it[k + 1].s)
         IN  IF t.ok THEN CmdOk(CmdInfo(t.t)) ELSE CmdErr(t.msg)

\* CommandParser::set with the guard i >= 0 on the Integer after PX
CommandParser_set_px_zero(it, k, t) ==
    IF k >= Len(it) THEN CmdErr(<<"key expected after set">>)
    ELSE IF ~IsStr(it[k + 1])
    THEN CmdErr(<<"invalid typee xpected SS or BS got: ">> \o DebugText(it[k + 1]))
    ELSE IF k + 1 >= Len(it) THEN CmdErr(<<"value expected after key in set">>)
    ELSE IF ~IsStr(it[k + 2])
    THEN CmdErr(<<"invalid typee xpected SS or BS got: ">> \o DebugText(it[k + 2]))
    ELSE LET key == it[k + 1].s
             value == it[k + 2].s
             hasPx == /\ k + 2 < Len(it)
                      /\ IsStr(it[k + 3])
                      /\ it[k + 3].s = PX
         IN  IF ~hasPx THEN CmdOk(CmdSet(key, StoredValue(value, NoInstant)))
             ELSE IF k + 3 >= Len(it) THEN CmdErr(<<"expected value after PX">>)
             ELSE LET r == it[k + 4]
                  IN  IF r.t = "Integer" /\ r.s = <<>> /\ r.i >= 0
                      THEN CmdOk(CmdSet(key, StoredValue(value, SomeInstant(t + r.i))))
                      ELSE IF r.t = "Integer" /\ r.s # <<>> /\ ~r.b
                      THEN CmdOk(CmdSet(key, StoredValue(value, SomeInstant(t + 999999999))))
                      ELSE CmdErr(<<"expected positive integer after PX in SET, got ">>
                                  \o DebugText(r))

\* CommandParser::set; t is what Instant::now() returns
CommandParser_set(it, k, t) ==
    IF k >= Len(it) THEN CmdErr(<<"key expected after set">>)
    ELSE IF ~IsStr(it[k + 1])
    THEN CmdErr(<<"invalid typee xpected SS or BS got: ">> \o DebugText(it[k + 1]))
    ELSE IF k + 1 >= Len(it) THEN CmdErr(<<"value expected after key in set">>)
    ELSE IF ~IsStr(it[k + 2])
    THEN CmdErr(<<"invalid typee xpected SS or BS got: ">> \o DebugText(it[k + 2]))
    ELSE LET key == it[k + 1].s
             value == it[k + 2].s
             hasPx == /\ k + 2 < Len(it)
                      /\ IsStr(it[k + 3])
                      /\ it[k + 3].s = PX
         IN  IF ~hasPx THEN CmdOk(CmdSet(key, StoredValue(value, NoInstant)))
             ELSE IF k + 3 >= Len(it) THEN CmdErr(<<"expected value after PX">>)
             ELSE LET r == it[k + 4]
                  IN  IF r.t = "Integer" /\ r.s = <<>> /\ r.i > 0
                      THEN CmdOk(CmdSet(key, StoredValue(value, SomeInstant(t + r.i))))
                      ELSE IF r.t = "Integer" /\ r.s # <<>> /\ ~r.b
                      \* more than 9 digits of ms: a deadline beyond every clock
                      THEN CmdOk(CmdSet(key, StoredValue(value, SomeInstant(t + 999999999))))
                      ELSE CmdErr(<<"expected positive integer after PX in SET, got ">>
                                  \o DebugText(r))

\* CommandParser::get
CommandParser_get(it, k) ==
    IF k >= Len(it) THEN CmdErr(<<"key expected after get">>)
    ELSE IF ~IsStr(it[k + 1])
    THEN CmdErr(<<"invalid type,e xpected SS or BS got: ">> \o DebugText(it[k + 1]))
    ELSE CmdOk(CmdGet(it[k + 1].s))

\* CommandParser::parse_next with an error text that leaves the token out
CommandParser_parse_next_anonymous(it, t) ==
    IF it = <<>> \/ ~IsStr(it[1])
    THEN CmdErr(<<"can only parse command from BulkString or SimpleString">>)
    ELSE LET raw_cmd == it[1].s
             a == to_uppercase(raw_cmd)
         IN  CASE a = PING -> CommandParser_ping
               [] a = ECHO -> CommandParser_echo(it, 1)
               [] a = SHUTDOWN -> CommandParser_shutdown
               [] a = SET -> CommandParser_set(it, 1, t)
               [] a = GET -> CommandParser_get(it, 1)
               [] a = INFO -> CommandParser_info(it, 1)
               [] OTHER -> CmdErr(<<"invalid command provided">>)

\* CommandParser::parse_next with an arm for LLEN
CommandParser_parse_next_llen(it, t) ==
    IF it = <<>> \/ ~IsStr(it[1])
    THEN CmdErr(<<"can only parse command from BulkString or SimpleString">>)
    ELSE LET raw_cmd == it[1].s
             a == to_uppercase(raw_cmd)
         IN  CASE a = PING -> CommandParser_ping
               [] a = ECHO -> CommandParser_echo(it, 1)
               [] a = SHUTDOWN -> CommandParser_shutdown
               [] a = SET -> CommandParser_set(it, 1, t)
               [] a = GET -> CommandParser_get(it, 1)
               [] a = INFO -> CommandParser_info(it, 1)
               [] a = <<"L", "L", "E", "N">> -> CmdOk(Cmd("Llen", Nil, <<>>, NoStored, ""))
               [] OTHER -> CmdErr(<<"invalid command: '">> \o a \o <<"' provided">>)

\* CommandParser::parse_next on a fresh parser over the elements it
CommandParser_parse_next(it, t) ==
    IF it = <<>> \/ ~IsStr(it[1])
    THEN CmdErr(<<"can only parse command from BulkString or SimpleString">>)
    ELSE LET raw_cmd == it[1].s
             a == to_uppercase(raw_cmd)
         IN  CASE a = PING -> CommandParser_ping
               [] a = ECHO -> CommandParser_echo(it, 1)
               [] a = SHUTDOWN -> CommandParser_shutdown
               [] a = SET -> CommandParser_set(it, 1, t)
               [] a = GET -> CommandParser_get(it, 1)
               [] a = INFO -> CommandParser_info(it, 1)
               [] OTHER -> CmdErr(<<"invalid command: '">> \o a \o <<"' provided">>)

-----------------------------------------------------------------------------
(* Replication (src/server.rs) *)

\* the length of the id gen_master_id builds
RunIdLen == 40

\* gen_master_id: RunIdLen hexadecimal digits derived from the wall clock;
\* the ids the model starts with
RunIds == { [i \in 1..RunIdLen |-> "3"] }

\* Option<(String, u32)>
NoUpstream == [some |-> FALSE, host |-> "", port |-> 0]

SomeUpstream == [some |-> TRUE, host |-> "localhost", port |-> 6379]

\* Server::new without the replica branch
NewReplication_default(replicaof, id) ==
    [role |-> "Master",
     replicaof |-> replicaof,
     master_replid |-> id,
     master_repl_offset |-> 0]

\* Replication::default followed by the replica branch of Server::new
NewReplication(replicaof, id) ==
    [role |-> IF replicaof.some THEN "Slave" ELSE "Master",
     replicaof |-> replicaof,
     master_replid |-> id,
     master_repl_offset |-> 0]

\* ServerRole::as_str
ServerRole_as_str(role) ==
    IF role = "Master"
    THEN <<"r", "o", "l", "e", ":", "m", "a", "s", "t", "e", "r">>
    ELSE <<"r", "o", "l", "e", ":", "s", "l", "a", "v", "e">>

\* Replication::serialize: the value it serializes
ReplicationInfo(r) ==
    BulkString(ServerRole_as_str(r.role) \o CRLF
               \o <<"m", "a", "s", "t", "e", "r", "_", "r", "e", "p", "l", "i", "d", ":">>
               \o r.master_replid \o CRLF
               \o <<"m", "a", "s", "t", "e", "r", "_", "r", "e", "p", "l", "_",
                    "o", "f", "f", "s", "e", "t", ":">>
               \o NatToDigits(r.master_repl_offset))

-----------------------------------------------------------------------------
(* Server: one request (the Ok(n) if n > 0 branch of poll_streams) *)

\* HashMap::insert
MapInsert(m, k, v) == [x \in (DOMAIN m) \cup {k} |-> IF x = k THEN v ELSE m[x]]

\* HashMap without the keys of ks
MapRemove(m, ks) == [x \in (DOMAIN m) \ ks |-> m[x]]

EmptyMap == [x \in {} |-> NoStored]

\* the outcome of a request: how it ended (kind), what is written (bytes),
\* the new store and the new shutdown flag.  The kinds: "cmd" (dispatched),
\* "decode_err", "not_array", "cmd_err" (an error text is written),
\* "panic_utf8", "panic_decode", "panic_serialize" (an unwrap panics),
\* "panic_todo" (todo!() panics)
Outcome(kind, cmd, reply, bytes, st, sd) ==
    [kind |-> kind, cmd |-> cmd, reply |-> reply, bytes |-> bytes,
     storage |-> st, shutdown |-> sd]

\* the Get arm of the dispatch, taking every entry that has an expiry as absent
GetReply_px_absent(st, key) ==
    IF key \in DOMAIN st /\ ~st[key].px.some
    THEN BulkString(st[key].value) ELSE BulkString(<<>>)

\* the Get arm of the dispatch: the value handed to the serializer
GetReply(st, key) ==
    IF key \in DOMAIN st THEN BulkString(st[key].value) ELSE BulkString(<<>>)

\* the match on cmd of poll_streams: the value handed to the serializer
\* (for Info: the value Replication::serialize serializes)
DispatchReply(cmd, st, repl) ==
    CASE cmd.c = "Ping" -> SimpleString(<<"P", "O", "N", "G">>)
      [] cmd.c = "Echo" -> cmd.payload
      [] cmd.c = "Shutdown" -> SimpleString(<<"O", "K">>)
      [] cmd.c = "Set" -> BulkString(<<"O", "K">>)
      [] cmd.c = "Get" -> GetReply(st, cmd.key)
      [] cmd.c = "Info" -> ReplicationInfo(repl)
      [] OTHER -> Nil

\* a Set arm that keeps the expiry of an entry the key already has
DispatchStorage_keep_px(cmd, st) ==
    IF cmd.c # "Set" THEN st
    ELSE IF cmd.key \in DOMAIN st
    THEN MapInsert(st, cmd.key, StoredValue(cmd.value.value, st[cmd.key].px))
    ELSE MapInsert(st, cmd.key, cmd.value)

\* the match on cmd of poll_streams: the store after the command
DispatchStorage(cmd, st) ==
    IF cmd.c = "Set" THEN MapInsert(st, cmd.key, cmd.value) ELSE st

\* the match on cmd of poll_streams: the shutdown flag after the command
DispatchShutdown(cmd, sd) == IF cmd.c = "Shutdown" THEN TRUE ELSE sd

\* reply.serialize().unwrap(): the bytes of the reply, or a panic
Respond(cmd, reply, st, sd) ==
    IF cmd.c = "Replconf"                \* Command::Replconf(_s) => vec![0]
    THEN Outcome("cmd", cmd, reply, <<NUL>>, st, sd)
    ELSE IF Serializable(reply)
    THEN Outcome("cmd", cmd, reply, SerializeBytes(reply), st, sd)
    ELSE Outcome("panic_serialize", cmd, reply, <<>>, st, sd)

\* the match on cmd of poll_streams, for the command cmd
Dispatch(cmd, st, sd, repl) ==
    IF cmd.c = "Llen"                    \* Command::Llen => todo!()
    THEN Outcome("panic_todo", cmd, Nil, <<>>, st, sd)
    ELSE Respond(cmd, DispatchReply(cmd, st, repl), DispatchStorage(cmd, st),
                 DispatchShutdown(cmd, sd))

\* the bytes a read returns: everything the client has sent
RECURSIVE Flatten(_)
Flatten(reqs) == IF reqs = <<>> THEN <<>> ELSE Head(reqs) \o Flatten(Tail(reqs))

\* String::from_utf8(buf.to_vec()): is the buffer valid UTF-8
ValidUtf8(data) == \A k \in 1..Len(data) : data[k] # BadByte

\* poll_streams, from the result cmd of CommandParser::parse_next on
HandleCommand(cmd, st, sd, repl) ==
    IF ~cmd.ok THEN Outcome("cmd_err", CmdPing, Nil, cmd.msg, st, sd)
    ELSE Dispatch(cmd.cmd, st, sd, repl)

\* poll_streams, from the result parsed_resp of RespParser::parse_next on
HandleParsed(parsed_resp, t, st, sd, repl) ==
    IF parsed_resp.kind = "panic"
    THEN Outcome("panic_decode", CmdPing, Nil, <<>>, st, sd)
    ELSE IF parsed_resp.kind = "err"
    THEN Outcome("decode_err", CmdPing, Nil, RespErrorText(parsed_resp), st, sd)
    ELSE IF parsed_resp.val.t # "Array"
    THEN Outcome("not_array", CmdPing, Nil,
                 <<"invalid type expected Array, got ">> \o DebugText(parsed_resp.val),
                 st, sd)
    ELSE HandleCommand(CommandParser_parse_next(parsed_resp.val.a, t), st, sd, repl)

\* the request cycle on the bytes data read at time t
HandleRequest(data, t, st, sd, repl) ==
    IF ~ValidUtf8(data) THEN Outcome("panic_utf8", CmdPing, Nil, <<>>, st, sd)
    ELSE HandleParsed(parse_next(Stream(data, BufSize - Len(data)), 0),
                      t, st, sd, repl)

-----------------------------------------------------------------------------
(* The clients: the requests they send *)

Conns == 1..MaxConns

K1 == <<"k">>

K2 == <<"j">>

V1 == <<"v">>

V2 == <<"w">>

FOO == <<"F", "O", "O">>

\* a request as a client encodes it: an Array of the given elements
Request(elems) == SerializeBytes(Array(elems))

ReqPing == Request(<<BulkString(PING)>>)

ReqShutdown == Request(<<BulkString(SHUTDOWN)>>)

ReqFoo == Request(<<BulkString(FOO)>>)

ReqGet(k) == Request(<<BulkString(GET), BulkString(k)>>)

ReqSet(k, v) == Request(<<BulkString(SET), BulkString(k), BulkString(v)>>)

ReqSetPx(k, v, ms) ==
    Request(<<BulkString(SET), BulkString(k), BulkString(v), BulkString(PX), Integer(ms)>>)

ReqEcho(v) == Request(<<BulkString(ECHO), v>>)

\* the elements ECHO is sent with
EchoPayloads ==
    { BulkString(<<"h", "i">>), SimpleString(<<"h", "i">>), Integer(7),
      Boolean(TRUE), Array(<<Integer(1), BulkString(<<"a">>)>>) }

\* the expiries SET is sent with, in ms
PxValues == {10, 25}

\* the requests on the store
KvRequests ==
    {ReqGet(K1), ReqSet(K1, V1), ReqSet(K2, V2)}
    \cup {ReqSetPx(K1, V2, ms) : ms \in PxValues}

WellFormedRequests ==
    {ReqPing, ReqShutdown, ReqFoo, Request(<<BulkString(ECHO)>>),
     Request(<<BulkString(GET)>>),
     Request(<<BulkString(INFO), BulkString(REPLICATION)>>)}
    \cup KvRequests
    \cup {ReqEcho(v) : v \in EchoPayloads}

\* bytes that are not a request: a bare sign, a negative array count, a
\* value that is not an Array, an unknown type tag, a missing terminator,
\* bytes that are not UTF-8
MalformedRequests ==
    { <<":", "+", CR, LF>>,
      <<"*", "-", "1", CR, LF>>,
      <<"+", "P", "I", "N", "G", CR, LF>>,
      <<"!", "x", CR, LF>>,
      <<"*", "1", CR, "x">>,
      <<BadByte>> }

Requests == WellFormedRequests \cup MalformedRequests

\* The clients send requests within a budget: a run holds up to three
\* requests on the store, or two requests of which one is any request.
SendCost(req) == IF req \in KvRequests THEN 2 ELSE 3

-----------------------------------------------------------------------------
(* Server: the loop of run *)

\* sleep(Duration::from_millis(10)) at the end of an iteration of poll_streams
SleepMs == 10

ErrorKinds == {"decode_err", "not_array", "cmd_err"}

PanicKinds == {"panic_utf8", "panic_decode", "panic_serialize", "panic_todo"}

\* last before any iteration of poll_streams
NoLast ==
    [conn |-> 0, kind |-> "none", cmd |-> CmdPing, reply |-> Nil, bytes |-> <<>>,
     at |-> 0]

\* last after a request on connection c with outcome o
Last(c, o) ==
    [conn |-> c, kind |-> o.kind, cmd |-> o.cmd, reply |-> o.reply,
     bytes |-> o.bytes, at |-> now]

\* last after an iteration that handles no request
Idle(c, kind) ==
    [conn |-> c, kind |-> kind, cmd |-> CmdPing, reply |-> Nil, bytes |-> <<>>,
     at |-> now]

\* Server::new, after a successful bind (and handshake, for a replica)
Init ==
    /\ streams = <<>>
    /\ to_close = <<>>
    /\ shutdown = FALSE
    /\ storage = EmptyMap
    /\ \E ro \in {NoUpstream, SomeUpstream}, id \in RunIds :
          replication = NewReplication(ro, id)
    /\ pc = "accept"
    /\ idx = 0
    /\ now = 0
    /\ backlog = <<>>
    /\ connected = 0
    /\ inbox = [c \in Conns |-> <<>>]
    /\ sent = 0
    /\ sock = [c \in Conns |-> "none"]
    /\ wcount = [c \in Conns |-> 0]
    /\ last = NoLast
    /\ errd = [c \in Conns |-> "none"]
    /\ lastSet = EmptyMap
    /\ cvalue = Nil
    /\ cinput = <<>>
    /\ cresult = Ok(Nil, 0)
    /\ cpc = "off"

serverVars == <<streams, to_close, shutdown, storage, replication, pc, idx, now,
                backlog, connected, inbox, sent, sock, wcount, last, errd,
                lastSet>>

\* The clients act between two iterations of the loop of run: what a client
\* does during an iteration is seen by the server as if done before it
\* (when its connection is read later) or after it.
ClientTurn == pc = "accept"

\* a client opens a connection: it waits in the accept queue
ClientConnect ==
    /\ ClientTurn
    /\ connected < MaxConns
    /\ connected' = connected + 1
    /\ backlog' = Append(backlog, connected + 1)
    /\ sock' = [sock EXCEPT ![connected + 1] = "open"]
    /\ UNCHANGED <<streams, to_close, shutdown, storage, replication, pc, idx,
                   now, inbox, sent, wcount, last, errd, lastSet>>
    /\ UNCHANGED codecVars

\* a client sends a request on its connection
ClientSend ==
    /\ ClientTurn
    /\ \E c \in Conns, req \in Requests :
          /\ sock[c] = "open"
          /\ sent + SendCost(req) <= MaxSendCost
          /\ inbox' = [inbox EXCEPT ![c] = Append(@, req)]
          /\ sent' = sent + SendCost(req)
    /\ UNCHANGED <<streams, to_close, shutdown, storage, replication, pc, idx,
                   now, backlog, connected, sock, wcount, last, errd, lastSet>>
    /\ UNCHANGED codecVars

\* time passes between two iterations of the loop of run
AdvanceClock ==
    /\ ClientTurn
    /\ now + SleepMs <= MaxTime
    /\ now' = now + SleepMs
    /\ UNCHANGED <<streams, to_close, shutdown, storage, replication, pc, idx,
                   backlog, connected, inbox, sent, sock, wcount, last, errd,
                   lastSet>>
    /\ UNCHANGED codecVars

\* run whose accept puts the new connection at the head of the live set
Accept_front ==
    /\ pc = "accept"
    /\ IF backlog # <<>>
       THEN /\ streams' = <<Head(backlog)>> \o streams
            /\ backlog' = Tail(backlog)
       ELSE UNCHANGED <<streams, backlog>>
    /\ pc' = "poll"
    /\ idx' = 0
    /\ UNCHANGED <<to_close, shutdown, storage, replication, now, connected,
                   inbox, sent, sock, wcount, last, errd, lastSet>>
    /\ UNCHANGED codecVars

\* run: the accept at the head of an iteration of the loop
Accept ==
    /\ pc = "accept"
    /\ IF backlog # <<>>
       THEN /\ streams' = Append(streams, Head(backlog))
            /\ backlog' = Tail(backlog)
       ELSE UNCHANGED <<streams, backlog>>
    /\ pc' = "poll"
    /\ idx' = 0
    /\ UNCHANGED <<to_close, shutdown, storage, replication, now, connected,
                   inbox, sent, sock, wcount, last, errd, lastSet>>
    /\ UNCHANGED codecVars

Polling == pc = "poll" /\ idx < Len(streams)

\* poll_streams: the shutdown branch at the head of an iteration
PollShutdown ==
    /\ Polling
    /\ shutdown
    /\ sock' = [sock EXCEPT ![streams[idx + 1]] = "shut"]
    /\ idx' = idx + 1
    /\ last' = Idle(streams[idx + 1], "shut")
    /\ UNCHANGED <<streams, to_close, shutdown, storage, replication, pc, now,
                   backlog, connected, inbox, sent, wcount, errd, lastSet>>
    /\ UNCHANGED codecVars

\* poll_streams: the request cycle on connection c ends with outcome o
PollRequest(c, o) ==
    /\ inbox' = [inbox EXCEPT ![c] = <<>>]
    /\ last' = Last(c, o)
    /\ storage' = o.storage
    /\ shutdown' = o.shutdown
    /\ IF o.kind \in PanicKinds
       THEN /\ pc' = "panicked"
            /\ UNCHANGED <<idx, now, wcount, errd, lastSet>>
       ELSE /\ wcount' = [wcount EXCEPT ![c] = @ + 1]
            /\ errd' = IF o.kind \in ErrorKinds
                       THEN [errd EXCEPT ![c] = o.kind] ELSE errd
            /\ lastSet' = IF o.cmd.c = "Set"
                          THEN MapInsert(lastSet, o.cmd.key, o.cmd.value)
                          ELSE lastSet
            /\ idx' = idx + 1
            /\ pc' = pc
            \* the error branches continue; the others sleep
            /\ IF o.kind = "cmd"
               THEN now + SleepMs <= MaxTime /\ now' = now + SleepMs
               ELSE now' = now

\* poll_streams: the read returns data
PollData ==
    /\ Polling
    /\ ~shutdown
    /\ inbox[streams[idx + 1]] # <<>>
    /\ PollRequest(streams[idx + 1],
                   HandleRequest(Flatten(inbox[streams[idx + 1]]), now, storage,
                                 shutdown, replication))
    /\ UNCHANGED <<streams, to_close, replication, backlog, connected, sent, sock>>
    /\ UNCHANGED codecVars

\* poll_streams that takes a read with no data for a hard error
PollWouldBlock_as_error ==
    /\ Polling
    /\ ~shutdown
    /\ inbox[streams[idx + 1]] = <<>>
    /\ now + SleepMs <= MaxTime
    /\ now' = now + SleepMs
    /\ sock' = [sock EXCEPT ![streams[idx + 1]] = "shut"]
    /\ to_close' = Append(to_close, idx)
    /\ idx' = idx + 1
    /\ last' = Idle(streams[idx + 1], "wouldblock")
    /\ UNCHANGED <<streams, shutdown, storage, replication, pc, backlog,
                   connected, inbox, sent, wcount, errd, lastSet>>
    /\ UNCHANGED codecVars

\* poll_streams: the read returns no data (Ok(0), or WouldBlock)
PollWouldBlock ==
    /\ Polling
    /\ ~shutdown
    /\ inbox[streams[idx + 1]] = <<>>
    /\ now + SleepMs <= MaxTime
    /\ now' = now + SleepMs
    /\ idx' = idx + 1
    /\ last' = Idle(streams[idx + 1], "wouldblock")
    /\ UNCHANGED <<streams, to_close, shutdown, storage, replication, pc,
                   backlog, connected, inbox, sent, sock, wcount, errd, lastSet>>
    /\ UNCHANGED codecVars

\* poll_streams: the read fails with a hard error
PollHardError ==
    /\ Polling
    /\ ~shutdown
    /\ now + SleepMs <= MaxTime
    /\ now' = now + SleepMs
    /\ sock' = [sock EXCEPT ![streams[idx + 1]] = "shut"]
    /\ to_close' = Append(to_close, idx)
    /\ idx' = idx + 1
    /\ last' = Idle(streams[idx + 1], "hard_err")
    /\ UNCHANGED <<streams, shutdown, storage, replication, pc, backlog,
                   connected, inbox, sent, wcount, errd, lastSet>>
    /\ UNCHANGED codecVars

\* Vec::remove, with a 0-based index
VecRemove(v, i) == SubSeq(v, 1, i) \o SubSeq(v, i + 2, Len(v))

RECURSIVE RemoveAll(_, _)
\* while let Some(idx) = to_close.pop() { streams.remove(idx) }
RemoveAll(v, tc) ==
    IF tc = <<>> THEN v
    ELSE RemoveAll(VecRemove(v, tc[Len(tc)]), SubSeq(tc, 1, Len(tc) - 1))

\* poll_streams that forgets the streams set for removal
Cleanup_keep ==
    /\ pc = "poll"
    /\ idx = Len(streams)
    /\ to_close' = <<>>
    /\ pc' = "sweep"
    /\ UNCHANGED <<streams, shutdown, storage, replication, idx, now, backlog,
                   connected, inbox, sent, sock, wcount, last, errd, lastSet>>
    /\ UNCHANGED codecVars

\* poll_streams: after the loop, the streams set for removal are removed
Cleanup ==
    /\ pc = "poll"
    /\ idx = Len(streams)
    /\ streams' = RemoveAll(streams, to_close)
    /\ to_close' = <<>>
    /\ pc' = "sweep"
    /\ UNCHANGED <<shutdown, storage, replication, idx, now, backlog, connected,
                   inbox, sent, sock, wcount, last, errd, lastSet>>
    /\ UNCHANGED codecVars

\* remove_expired with a strict comparison: px < Instant::now()
Expired_strict(st, t) == {k \in DOMAIN st : st[k].px.some /\ st[k].px.at < t}

\* the keys remove_expired collects at time t
Expired(st, t) == {k \in DOMAIN st : st[k].px.some /\ st[k].px.at <= t}

\* remove_expired that removes nothing
RemoveExpired_skip ==
    /\ pc = "sweep"
    /\ pc' = "check"
    /\ UNCHANGED <<streams, to_close, shutdown, storage, replication, idx, now,
                   backlog, connected, inbox, sent, sock, wcount, last, errd,
                   lastSet>>
    /\ UNCHANGED codecVars

\* Server::remove_expired
RemoveExpired ==
    /\ pc = "sweep"
    /\ storage' = MapRemove(storage, Expired(storage, now))
    /\ pc' = "check"
    /\ UNCHANGED <<streams, to_close, shutdown, replication, idx, now, backlog,
                   connected, inbox, sent, sock, wcount, last, errd, lastSet>>
    /\ UNCHANGED codecVars

\* run without the break: the loop goes on after a SHUTDOWN
LoopEnd_no_break ==
    /\ pc = "check"
    /\ pc' = "accept"
    /\ UNCHANGED <<streams, to_close, shutdown, storage, replication, idx, now,
                   backlog, connected, inbox, sent, sock, wcount, last, errd,
                   lastSet>>
    /\ UNCHANGED codecVars

\* run: the test of the shutdown flag at the end of an iteration
LoopEnd ==
    /\ pc = "check"
    /\ pc' = IF shutdown THEN "done" ELSE "accept"
    /\ UNCHANGED <<streams, to_close, shutdown, storage, replication, idx, now,
                   backlog, connected, inbox, sent, sock, wcount, last, errd,
                   lastSet>>
    /\ UNCHANGED codecVars

Next ==
    \/ ClientConnect
    \/ ClientSend
    \/ AdvanceClock
    \/ Accept
    \/ PollShutdown
    \/ PollData
    \/ PollWouldBlock
    \/ PollHardError
    \/ Cleanup
    \/ RemoveExpired
    \/ LoopEnd

Spec == Init /\ [][Next]_vars

-----------------------------------------------------------------------------
(* The codec on its own: a value is serialized and the result is parsed *)

\* the length of the texts the integer parser is run on
MaxTextLen == 4

MaxStrLen == 2

MaxArrLen == 2

\* the strings of at most MaxStrLen characters of the alphabet
Strings(alphabet) == UNION {[1..n -> alphabet] : n \in 0..MaxStrLen}

\* the sequences of at most MaxArrLen elements of the set
Seqs(set) == UNION {[1..n -> set] : n \in 0..MaxArrLen}

\* the values that are not arrays: a SimpleString holds no CR and no LF
ScalarValues ==
    {SimpleString(x) : x \in Strings({"a", "é"})}
    \cup {BulkString(x) : x \in Strings({"a", "é", CR})}
    \cup {Integer(n) : n \in {0 - 12, 0, 7}}
    \cup {Boolean(b) : b \in BOOLEAN}

\* the elements of the arrays of arrays
InnerValues ==
    {Array(<<>>), Array(<<Integer(7)>>),
     Array(<<BulkString(<<"a">>), Boolean(TRUE)>>), SimpleString(<<"a">>)}

CodecValues ==
    ScalarValues
    \cup {Array(a) : a \in Seqs({SimpleString(<<"a">>), BulkString(<<"a", CR>>),
                                 Integer(0 - 12), Boolean(FALSE)})}
    \cup {Array(a) : a \in Seqs(InnerValues)}

InitCodec ==
    /\ streams = <<>>
    /\ to_close = <<>>
    /\ shutdown = FALSE
    /\ storage = EmptyMap
    /\ replication = NewReplication(NoUpstream, CHOOSE id \in RunIds : TRUE)
    /\ pc = "accept"
    /\ idx = 0
    /\ now = 0
    /\ backlog = <<>>
    /\ connected = 0
    /\ inbox = [c \in Conns |-> <<>>]
    /\ sent = 0
    /\ sock = [c \in Conns |-> "none"]
    /\ wcount = [c \in Conns |-> 0]
    /\ last = NoLast
    /\ errd = [c \in Conns |-> "none"]
    /\ lastSet = EmptyMap
    /\ cvalue \in CodecValues
    /\ cinput = <<>>
    /\ cresult = Ok(Nil, 0)
    /\ cpc = "value"

\* RespValue::serialize on the value
CodecSerialize ==
    /\ cpc = "value"
    /\ cinput' = SerializeBytes(cvalue)
    /\ cpc' = "serialized"
    /\ UNCHANGED <<cvalue, cresult>>
    /\ UNCHANGED serverVars

\* RespParser::new(cinput.chars()).parse_next()
CodecParse ==
    /\ cpc = "serialized"
    /\ cresult' = parse_next(StrStream(cinput), 0)
    /\ cpc' = "parsed"
    /\ UNCHANGED <<cvalue, cinput>>
    /\ UNCHANGED serverVars

NextCodec ==
    \/ CodecSerialize
    \/ CodecParse

SpecCodec == InitCodec /\ [][NextCodec]_vars

-----------------------------------------------------------------------------
(* One request on its own: the elements of a request array are            *)
(* interpreted and the command is dispatched; the bytes of a request are   *)
(* decoded, interpreted and dispatched                                     *)

RECURSIVE Spellings(_)
\* the letter-case spellings of the word w: at each place, a letter that
\* to_uppercase maps to the same letter as the letter of w
Spellings(w) ==
    IF w = <<>> THEN {<<>>}
    ELSE LET letters == {LowerChars[i] : i \in 1..Len(LowerChars)}
                            \cup {UpperChars[i] : i \in 1..Len(UpperChars)}
             variants == {c \in letters : UpperChar(c) = UpperChar(Head(w))}
         IN  {<<c>> \o r : c \in variants, r \in Spellings(Tail(w))}

\* the argument elements a command name is sent with
StdArgs(w) ==
    CASE w = ECHO -> <<BulkString(<<"h", "i">>)>>
      [] w = SET -> <<BulkString(K1), BulkString(V1)>>
      [] w = GET -> <<BulkString(K1)>>
      [] w = INFO -> <<BulkString(REPLICATION)>>
      [] OTHER -> <<>>

CommandNames == {PING, ECHO, SHUTDOWN, SET, GET, INFO}

\* REPLCONF listening-port 6380 and REPLCONF capa psync2
ReplconfRequests ==
    LET REPLCONF == <<"R", "E", "P", "L", "C", "O", "N", "F">>
    IN  { <<BulkString(REPLCONF),
            BulkString(<<"l", "i", "s", "t", "e", "n", "i", "n", "g", "-",
                         "p", "o", "r", "t">>),
            BulkString(<<"6", "3", "8", "0">>)>>,
          <<BulkString(REPLCONF), BulkString(<<"c", "a", "p", "a">>),
            BulkString(<<"p", "s", "y", "n", "c", "2">>)>> }

\* the element sequences the interpreter is run on
CmdRequests ==
    LET \* what follows the PX token of a SET
        PxArgs ==
          { <<>>, <<Integer(10)>>, <<Integer(1)>>, <<Integer(0)>>, <<Integer(0 - 5)>>,
            <<BigInteger(FALSE, I64MaxDigits)>>, <<BigInteger(TRUE, I64MinDigits)>>,
            <<BulkString(<<"1", "0">>)>>, <<SimpleString(<<"1", "0">>)>>,
            <<Boolean(TRUE)>>, <<Array(<<Integer(10)>>)>>, <<Integer(10), Integer(0)>> }
    IN
    \* every spelling of every command name, as either string type
    UNION {{<<BulkString(n)>> \o StdArgs(w) : n \in Spellings(w)} : w \in CommandNames}
    \cup UNION {{<<SimpleString(n)>> \o StdArgs(w) : n \in Spellings(w)} :
                 w \in CommandNames}
    \* a first element that is no string, and no element at all
    \cup {<<>>, <<Integer(1)>>, <<Boolean(TRUE), BulkString(PING)>>,
          <<Array(<<BulkString(PING)>>)>>, <<SimpleError(PING)>>, <<Nil>>}
    \* names that are in no arm of the match
    \cup {<<BulkString(FOO)>>} \cup ReplconfRequests
    \cup {<<BulkString(<<"L", "L", "E", "N">>), BulkString(K1)>>,
          <<SimpleString(<<"l", "l", "e", "n">>), BulkString(K1)>>}
    \* INFO and its section
    \cup {<<BulkString(INFO)>> \o a :
            a \in {<<BulkString(sec)>> : sec \in Spellings(REPLICATION)}
                  \cup {<<SimpleString(REPLICATION)>>, <<BulkString(<<"s", "e", "r", "v", "e", "r">>)>>,
                        <<BulkString(<<>>)>>, <<Integer(1)>>, <<>>}}
    \* SET, GET and their arguments
    \cup {<<BulkString(SET)>> \o a :
            a \in {<<>>, <<BulkString(K1)>>, <<Integer(1), BulkString(V1)>>,
                   <<BulkString(K1), Integer(1)>>, <<SimpleString(K2), SimpleString(V2)>>}}
    \cup {<<BulkString(SET), BulkString(k), BulkString(V2), px>> \o a :
            k \in {K1, K2},
            px \in {BulkString(PX), SimpleString(PX), BulkString(<<"p", "x">>),
                    BulkString(<<"E", "X">>), Integer(10)},
            a \in PxArgs}
    \cup {<<BulkString(GET)>> \o a : a \in {<<>>, <<Integer(1)>>, <<SimpleString(K2)>>}}

InitCmd ==
    /\ streams = <<>>
    /\ to_close = <<>>
    /\ shutdown = FALSE
    /\ storage \in {EmptyMap, MapInsert(EmptyMap, K1, StoredValue(V1, NoInstant))}
    /\ replication = NewReplication(NoUpstream, CHOOSE id \in RunIds : TRUE)
    /\ pc = "accept"
    /\ idx = 0
    /\ now \in {0, SleepMs}
    /\ backlog = <<>>
    /\ connected = 0
    /\ inbox = [c \in Conns |-> <<>>]
    /\ sent = 0
    /\ sock = [c \in Conns |-> "none"]
    /\ wcount = [c \in Conns |-> 0]
    /\ last = NoLast
    /\ errd = [c \in Conns |-> "none"]
    /\ lastSet = EmptyMap
    /\ cresult = Ok(Nil, 0)
    /\ \/ /\ cpc = "request"
          /\ cvalue \in {Array(it) : it \in CmdRequests}
          /\ cinput = <<>>
       \/ /\ cpc = "bytes"
          /\ cvalue = Nil
          /\ LET \* zeros that make a request fill the read buffer
                 Zeros(n) == [k \in 1..n |-> "0"]
                 \* ECHO and GET as the first of two elements, the buffer
                 \* ending after the first
                 FullBuffer(name) ==
                     LET tail == <<"2", CR, LF>> \o SerializeBytes(BulkString(name))
                     IN  <<"*">> \o Zeros(BufSize - 1 - Len(tail)) \o tail
             IN  cinput \in Requests
                           \cup {Request(it) : it \in ReplconfRequests}
                           \cup {Request(<<BulkString(<<"L", "L", "E", "N">>), BulkString(K1)>>),
                                 Request(<<BulkString(ECHO), Array(<<>>)>>),
                                 <<"*", "2", CR, LF>> \o SerializeBytes(BulkString(ECHO)),
                                 FullBuffer(ECHO), FullBuffer(GET)}

\* poll_streams from CommandParser::new(inner_cmd.into_iter()).parse_next()
\* on: the elements of cvalue are interpreted and the command is dispatched
CmdRun ==
    /\ cpc = "request"
    /\ LET o == HandleCommand(CommandParser_parse_next(cvalue.a, now), storage,
                              shutdown, replication)
       IN  /\ last' = Last(0, o)
           /\ storage' = o.storage
           /\ shutdown' = o.shutdown
    /\ cpc' = "handled"
    /\ UNCHANGED <<streams, to_close, replication, pc, idx, now, backlog,
                   connected, inbox, sent, sock, wcount, errd, lastSet>>
    /\ UNCHANGED <<cvalue, cinput, cresult>>

\* the request cycle of poll_streams on the bytes cinput, read on
\* connection 1
BytesRun ==
    /\ cpc = "bytes"
    /\ PollRequest(1, HandleRequest(cinput, now, storage, shutdown, replication))
    /\ cpc' = "answered"
    /\ UNCHANGED <<streams, to_close, replication, backlog, connected, sent, sock>>
    /\ UNCHANGED <<cvalue, cinput, cresult>>

SpecCmd == InitCmd /\ [][CmdRun \/ BytesRun]_vars

-----------------------------------------------------------------------------
(* One call of poll_streams on its own, on a live set of up to TickConns   *)
(* connections                                                             *)

TickConns == 3

\* the connections 1..n have been accepted in that order; some have sent a
\* request
InitTick ==
    /\ \E n \in 1..TickConns :
          /\ streams = [k \in 1..n |-> k]
          /\ connected = n
          /\ sock = [c \in 1..TickConns |-> IF c <= n THEN "open" ELSE "none"]
          /\ inbox \in [1..TickConns -> {<<>>, <<ReqPing>>, <<ReqGet(K1)>>}]
          /\ \A c \in 1..TickConns : c > n => inbox[c] = <<>>
    /\ to_close = <<>>
    /\ shutdown = FALSE
    /\ storage = EmptyMap
    /\ replication = NewReplication(NoUpstream, CHOOSE id \in RunIds : TRUE)
    /\ pc = "poll"
    /\ idx = 0
    /\ now = 0
    /\ backlog = <<>>
    /\ sent = 0
    /\ wcount = [c \in 1..TickConns |-> 0]
    /\ last = NoLast
    /\ errd = [c \in 1..TickConns |-> "none"]
    /\ lastSet = EmptyMap
    /\ cvalue = Nil
    /\ cinput = <<>>
    /\ cresult = Ok(Nil, 0)
    /\ cpc = "off"

NextTick ==
    \/ PollData
    \/ PollWouldBlock
    \/ PollHardError
    \/ Cleanup

SpecTick == InitTick /\ [][NextTick]_vars

-----------------------------------------------------------------------------
(* The parser on its own: parse_int, parse_bulk_string, parse_array and    *)
(* parse_next are run on a text, as the tests of src/resp.rs run them      *)

\* cpc names the function that is run on cinput; for parse_array, cvalue is
\* the Array of the values whose texts follow the count in cinput
InitParse ==
    /\ streams = <<>>
    /\ to_close = <<>>
    /\ shutdown = FALSE
    /\ storage = EmptyMap
    /\ replication = NewReplication(NoUpstream, CHOOSE id \in RunIds : TRUE)
    /\ pc = "accept"
    /\ idx = 0
    /\ now = 0
    /\ backlog = <<>>
    /\ connected = 0
    /\ inbox = [c \in Conns |-> <<>>]
    /\ sent = 0
    /\ sock = [c \in Conns |-> "none"]
    /\ wcount = [c \in Conns |-> 0]
    /\ last = NoLast
    /\ errd = [c \in Conns |-> "none"]
    /\ lastSet = EmptyMap
    /\ cresult = Ok(Nil, 0)
    /\ LET Texts(alphabet, n) == UNION {[1..m -> alphabet] : m \in 0..n}
           CRLF2 == <<CR, LF>>
           \* the texts of the test parse_int, the ends of the range of i64
           \* and the numerals next to them
           IntTexts ==
               Texts({"1", "0", "-", "+", "a", CR, LF}, MaxTextLen)
               \cup { <<"8", "9">> \o CRLF2, <<"+", "3", "2">> \o CRLF2,
                      <<"-", "1", "2", "2", "3">> \o CRLF2,
                      I64MaxDigits \o CRLF2, <<"-">> \o I64MinDigits \o CRLF2,
                      I64MinDigits \o CRLF2, <<"-">> \o UsizeMaxDigits \o CRLF2 }
           \* a length, a terminator, a payload, a terminator
           BulkLens ==
               { <<"0">>, <<"1">>, <<"2">>, <<"3">>, <<"0", "2">>, <<>>, <<"-", "1">>,
                 I64MaxDigits, I64MinDigits, UsizeMaxDigits,
                 UsizeMaxDigits \o <<"0">> }
           BulkTexts ==
               { len \o sep1 \o blk \o sep2 :
                   len \in BulkLens,
                   sep1 \in {CRLF2, <<CR>>, <<LF>>, <<CR, "a">>, <<>>},
                   blk \in Texts({"a", CR, LF}, MaxStrLen + 1),
                   sep2 \in {CRLF2, <<>>, <<CR>>, <<CR, "a">>, <<"a", LF>>} }
           \* the texts of values and the values they denote
           Elements ==
               { [text |-> <<":", "3", "2">> \o CRLF2, val |-> Integer(32)],
                 [text |-> <<"+", "t", "e", "s", "t">> \o CRLF2,
                  val |-> SimpleString(<<"t", "e", "s", "t">>)],
                 [text |-> <<"$", "2">> \o CRLF2 \o <<"O", "K">> \o CRLF2,
                  val |-> BulkString(<<"O", "K">>)],
                 [text |-> <<"#", "t">> \o CRLF2, val |-> Boolean(TRUE)],
                 [text |-> <<"-", "W", "o">> \o CRLF2, val |-> SimpleError(<<"W", "o">>)],
                 [text |-> <<"*", "0">> \o CRLF2, val |-> Array(<<>>)],
                 [text |-> <<"*", "2">> \o CRLF2 \o <<":", "-", "1">> \o CRLF2
                              \o <<"*", "1">> \o CRLF2 \o <<"+", "a">> \o CRLF2,
                  val |-> Array(<<Integer(0 - 1), Array(<<SimpleString(<<"a">>)>>)>>)] }
           \* a type tag and what follows it
           ValueTexts ==
               { <<tag>> \o x : tag \in {"+", "-", ":", "#"},
                                x \in Texts({"a", "t", "1", CR, LF}, MaxTextLen) }
       IN  \/ cpc = "int" /\ cinput \in IntTexts /\ cvalue = Nil
           \/ cpc = "next" /\ cinput \in ValueTexts /\ cvalue = Nil
           \/ cpc = "bulk" /\ cinput \in BulkTexts /\ cvalue = Nil
           \/ /\ cpc = "array"
              /\ \E n \in 0..MaxArrLen :
                 \E es \in UNION {[1..m -> Elements] : m \in 0..(MaxArrLen + 1)} :
                    /\ cinput = NatToDigits(n) \o CRLF2
                                   \o Flatten([k \in 1..Len(es) |-> es[k].text])
                    /\ cvalue = Array([k \in 1..Len(es) |-> es[k].val])

\* RespParser::new(cinput.chars()) and the call of the function cpc names
ParseText ==
    /\ cpc \in {"int", "bulk", "array", "next"}
    /\ cresult' = CASE cpc = "int" -> parse_int(StrStream(cinput), 0)
                    [] cpc = "bulk" -> parse_bulk_string(StrStream(cinput), 0)
                    [] cpc = "array" -> parse_array(StrStream(cinput), 0)
                    [] cpc = "next" -> parse_next(StrStream(cinput), 0)
    /\ cpc' = CASE cpc = "int" -> "int_done"
                [] cpc = "bulk" -> "bulk_done"
                [] cpc = "array" -> "array_done"
                [] cpc = "next" -> "next_done"
    /\ UNCHANGED <<cvalue, cinput>>
    /\ UNCHANGED serverVars

SpecParse == InitParse /\ [][ParseText]_vars

-----------------------------------------------------------------------------
(* Properties *)

\* the step is the request cycle of poll_streams on connection c: the read
\* returns the data of c (a read that fails leaves the data unread); the
\* data is one request when inbox[c] holds one
ReadStep(c) ==
    /\ Polling
    /\ ~shutdown
    /\ streams[idx + 1] = c
    /\ inbox[c] # <<>>
    /\ inbox'[c] = <<>>

\* the last iteration of poll_streams dispatched the command named c
Dispatched(c) == last.kind = "cmd" /\ last.cmd.c = c

EmptyBulk == BulkString(<<>>)

\* C1: a GET on a key whose PX deadline has passed replies the empty
\* BulkString, also when no sweep has run since the deadline: whenever a GET is
\* dispatched on a key whose last SET gave it an expiry <= the time of the
\* GET, the reply is the empty BulkString.
C1_ExpiredGetIsAbsent ==
    Dispatched("Get") =>
        LET k == last.cmd.key
        IN  (k \in DOMAIN lastSet /\ lastSet[k].px.some /\ lastSet[k].px.at <= last.at)
                => last.reply = EmptyBulk

\* C2: no bytes received from a client terminate the loop of run, a
\* well-formed SHUTDOWN apart: the process never panics on a request, and the
\* loop is left only with the shutdown flag set.
C2_OnlyShutdownEndsLoop ==
    /\ pc # "panicked"
    /\ pc = "done" => shutdown

\* C3: when the loop terminates after a SHUTDOWN, every connection of the
\* live set has been shut down in both directions.
C3_AllShutAtExit ==
    pc = "done" => \A k \in 1..Len(streams) : sock[streams[k]] = "shut"

OkBytes == <<"+", "O", "K", CR, LF>>

\* C4: SHUTDOWN is answered +OK on its own connection and the loop
\* terminates at the end of the same iteration: once the flag is set no
\* iteration starts, no connection is accepted, no request is handled, and
\* the test at the end of the iteration leaves the loop.
C4_ShutdownEndsLoop ==
    /\ [](Dispatched("Shutdown") => (last.bytes = OkBytes /\ shutdown))
    /\ [](pc = "done" => shutdown)
    /\ [][shutdown =>
            /\ shutdown'
            /\ pc' # "accept"
            /\ pc = "check" => pc' = "done"
            /\ pc = "done" => pc' = "done"
            /\ Len(streams') <= Len(streams)
            /\ backlog' = backlog
            /\ wcount' = wcount
            /\ storage' = MapRemove(storage, DOMAIN storage \ DOMAIN storage')
            /\ last'.kind \in {"cmd", "decode_err", "not_array", "cmd_err"}
                   => last' = last]_vars

\* C4 witness: the loop has terminated after a SHUTDOWN answered +OK, with
\* two connections in the live set.
C4_Witness ==
    /\ pc = "done"
    /\ Len(streams) = 2
    /\ \E c \in Conns : wcount[c] = 1

PongBytes == <<"+", "P", "O", "N", "G", CR, LF>>

\* C5: a request whose command name is unknown (FOO) gets the error text
\* naming the token, its connection stays in the live set and open, and a
\* PING is answered +PONG (also on a connection that got the error before).
C5_UnknownCommand ==
    /\ [](Dispatched("Ping") => last.bytes = PongBytes)
    /\ [][\A c \in Conns :
            (ReadStep(c) /\ inbox[c] = <<ReqFoo>>) =>
                /\ last'.kind = "cmd_err"
                /\ last'.conn = c
                /\ last'.bytes = <<"invalid command: '">> \o FOO \o <<"' provided">>
                /\ streams' = streams
                /\ to_close' = to_close
                /\ sock' = sock
                /\ pc' = "poll"]_vars

\* C5 witness: a PING is answered +PONG on a connection that got the
\* unknown-command error before and is still in the live set.
C5_Witness ==
    /\ Dispatched("Ping")
    /\ errd[last.conn] = "cmd_err"
    /\ last.bytes = PongBytes
    /\ \E k \in 1..Len(streams) : streams[k] = last.conn

\* C6: a request that fails at decoding, at the not-an-Array check or at
\* command interpretation leaves the store, the replication state, the
\* shutdown flag and the live connections as they are and writes exactly one
\* error text, to its connection only.  (The request is text the parser or
\* the interpreter fails on: bytes that are no text are left out.)
C6_FailedRequestFrame ==
    [][\A c \in Conns :
        (ReadStep(c) /\ last'.kind \in ErrorKinds \cup {"panic_decode"}) =>
            /\ storage' = storage
            /\ replication' = replication
            /\ shutdown' = shutdown
            /\ streams' = streams
            /\ to_close' = to_close
            /\ sock' = sock
            /\ pc' = "poll"
            /\ last'.bytes # <<>>
            /\ wcount' = [wcount EXCEPT ![c] = @ + 1]]_vars

\* C7: after SET k v PX ms, a GET k dispatched before the deadline, with no
\* SET on k in between, replies BulkString v; a GET on a key never set
\* replies the empty BulkString.
C7_GetWithinWindow ==
    Dispatched("Get") =>
        LET k == last.cmd.key
        IN  /\ k \notin DOMAIN lastSet =>
                /\ last.reply = EmptyBulk
                /\ last.bytes = SerializeBytes(EmptyBulk)
            /\ (k \in DOMAIN lastSet /\ lastSet[k].px.some /\ last.at < lastSet[k].px.at)
                => /\ last.reply = BulkString(lastSet[k].value)
                   /\ last.bytes = SerializeBytes(BulkString(lastSet[k].value))

\* C7 witness: a GET on K1 replies its value before the deadline, two
\* iterations of the loop and a SET on K2 after the SET on K1.
C7_Witness ==
    /\ Dispatched("Get")
    /\ last.cmd.key = K1
    /\ last.at = 20
    /\ K1 \in DOMAIN lastSet /\ lastSet[K1].px = SomeInstant(25)
    /\ K2 \in DOMAIN lastSet
    /\ last.reply = BulkString(V2)

\* C7 witness (second part): a GET on a key never set
C7_WitnessAbsent ==
    /\ Dispatched("Get")
    /\ last.cmd.key \notin DOMAIN lastSet
    /\ last.reply = EmptyBulk

\* C8: after a sweep the store holds no entry whose expiry is <= now, and
\* the sweep removes nothing else: an entry that has not expired and an
\* entry with no expiry stay, with their values; a key SET with no PX is in
\* the store with its value, and is read with it, until it is overwritten.
C8_SweepExact ==
    /\ [](\A k \in DOMAIN lastSet :
            ~lastSet[k].px.some => (k \in DOMAIN storage /\ storage[k] = lastSet[k]))
    /\ [](Dispatched("Get") =>
            LET k == last.cmd.key
            IN  (k \in DOMAIN lastSet /\ ~lastSet[k].px.some)
                    => last.reply = BulkString(lastSet[k].value))
    /\ [][(pc = "sweep" /\ pc' = "check") =>
            /\ \A k \in DOMAIN storage' :
                  ~(storage'[k].px.some /\ storage'[k].px.at <= now')
            /\ \A k \in DOMAIN storage :
                  (~storage[k].px.some \/ storage[k].px.at > now)
                      => (k \in DOMAIN storage' /\ storage'[k] = storage[k])]_vars

\* C8 witness: a sweep has removed the expired K1, at the instant of its
\* deadline, and has left K2, which has no expiry.
C8_Witness ==
    /\ pc = "check"
    /\ K1 \in DOMAIN lastSet /\ lastSet[K1].px = SomeInstant(now)
    /\ K1 \notin DOMAIN storage
    /\ K2 \in DOMAIN storage

\* C9: parsing the serialization of a value built from SimpleString (no CR,
\* no LF), Integer, Boolean, BulkString and Array yields the value.
C9_RoundTrip ==
    cpc = "parsed" => (cresult.kind = "ok" /\ cresult.val = cvalue)

Handled == cpc = "handled"

\* C11: a REPLCONF request (listening-port N, capa C) is interpreted as the
\* Replconf command and answered with the placeholder reply.
C11_ReplconfAccepted ==
    (Handled /\ cvalue.a \in ReplconfRequests) =>
        /\ last.kind = "cmd"
        /\ last.cmd.c = "Replconf"
        /\ last.bytes = <<NUL>>

\* the words s and w are the same up to the case of their letters
SameWord(s, w) ==
    /\ Len(s) = Len(w)
    /\ \A i \in 1..Len(s) : UpperChar(s[i]) = UpperChar(w[i])

\* the first element of the request array is a string that spells w
Names(it, w) == it # <<>> /\ IsStr(it[1]) /\ SameWord(it[1].s, w)

\* C12: INFO recognises the section replication, whatever the case of its
\* letters as received, and replies the replication state; any other
\* section, no section and a section that is no string are command-parse
\* errors.
C12_InfoSection ==
    (Handled /\ Names(cvalue.a, INFO)) =>
        LET it == cvalue.a
        IN  IF Len(it) >= 2 /\ IsStr(it[2]) /\ SameWord(it[2].s, REPLICATION)
            THEN /\ last.kind = "cmd"
                 /\ last.cmd = CmdInfo("Replication")
            ELSE last.kind = "cmd_err"

\* an Integer element that is positive
IsPositive(v) == v.t = "Integer" /\ (IF v.s = <<>> THEN v.i > 0 ELSE ~v.b)

\* C13: SET key value gives the entry no expiry when no PX token follows;
\* followed by PX and a positive Integer ms it gives the expiry now + ms;
\* followed by PX and a zero, a negative or a non-Integer element, or by PX
\* and nothing, it is a command-parse error and the store is as before.
C13_SetPx ==
    [][(/\ cpc = "request" /\ cpc' = "handled"
        /\ Names(cvalue.a, SET)
        /\ Len(cvalue.a) >= 3 /\ IsStr(cvalue.a[2]) /\ IsStr(cvalue.a[3])) =>
        LET it == cvalue.a
            key == it[2].s
            value == it[3].s
            hasPx == Len(it) >= 4 /\ IsStr(it[4]) /\ it[4].s = PX
        IN  IF ~hasPx
            THEN /\ last'.kind = "cmd"
                 /\ last'.cmd = CmdSet(key, StoredValue(value, NoInstant))
                 /\ storage' = MapInsert(storage, key, StoredValue(value, NoInstant))
            ELSE IF Len(it) >= 5 /\ IsPositive(it[5])
            THEN /\ last'.kind = "cmd"
                 /\ last'.cmd.c = "Set"
                 /\ last'.cmd.key = key
                 /\ last'.cmd.value.value = value
                 /\ last'.cmd.value.px.some
                 /\ IF it[5].s = <<>>
                    THEN last'.cmd.value.px.at = now + it[5].i
                    ELSE last'.cmd.value.px.at > now + MaxTime
                 /\ storage' = MapInsert(storage, key, last'.cmd.value)
            ELSE /\ last'.kind = "cmd_err"
                 /\ last'.bytes # <<>>
                 /\ storage' = storage]_vars

\* C13 witness: SET K1 with PX 10 at a time that is not 0 has overwritten
\* the entry of K1, which had no expiry, with one that expires at now + 10.
C13_Witness ==
    /\ Handled
    /\ last.kind = "cmd" /\ last.cmd.c = "Set"
    /\ now = SleepMs
    /\ K1 \in DOMAIN storage
    /\ storage[K1] = StoredValue(V2, SomeInstant(now + 10))

\* the command a name is interpreted as, with the arguments of StdArgs
ExpectedCmd(w) ==
    CASE w = PING -> CmdPing
      [] w = ECHO -> CmdEcho(BulkString(<<"h", "i">>))
      [] w = SHUTDOWN -> CmdShutdown
      [] w = SET -> CmdSet(K1, StoredValue(V1, NoInstant))
      [] w = GET -> CmdGet(K1)
      [] w = INFO -> CmdInfo("Replication")

\* C14: the command name is the first element of the array; a first
\* element that is no SimpleString and no BulkString, and an empty array,
\* are errors; every letter-case spelling of PING, ECHO, SET, GET, INFO and
\* SHUTDOWN is interpreted as that command.
C14_CommandName ==
    Handled =>
        LET it == cvalue.a
        IN  /\ (it = <<>> \/ ~IsStr(it[1])) =>
                /\ last.kind = "cmd_err"
                /\ last.bytes = <<"can only parse command from BulkString or SimpleString">>
            /\ \A w \in CommandNames :
                  (Names(it, w) /\ Tail(it) = StdArgs(w)) =>
                      /\ last.kind = "cmd"
                      /\ last.cmd = ExpectedCmd(w)

\* C14 witness: the SimpleString sHuTdOwN has been interpreted as Shutdown
\* and has set the flag.
C14_Witness ==
    /\ Handled
    /\ cvalue.a = <<SimpleString(<<"s", "H", "u", "T", "d", "O", "w", "N">>)>>
    /\ last.kind = "cmd" /\ last.cmd = CmdShutdown
    /\ shutdown

\* C15: an iteration of poll_streams whose read returns data decodes and
\* dispatches one request, the first of the bytes read, and writes one reply
\* or error text, to the connection read, however many requests the bytes
\* hold; an iteration whose read returns no data writes nothing.
C15_OneReplyPerRead ==
    [][\A c \in Conns :
        /\ ReadStep(c) =>
              /\ last'.conn = c
              /\ last'.kind \in {"cmd"} \cup ErrorKinds
              /\ last'.bytes # <<>>
              /\ wcount' = [wcount EXCEPT ![c] = @ + 1]
              /\ Head(inbox[c]) \in WellFormedRequests =>
                    last'.bytes = HandleRequest(Head(inbox[c]), now, storage,
                                                shutdown, replication).bytes
        /\ (Polling /\ streams[idx + 1] = c /\ inbox[c] = <<>>) =>
              wcount' = wcount]_vars

\* C19: at the end of an iteration of the loop of run, after the sweep, no
\* key whose last SET gave it a deadline that has passed is in the store.
C19_SweptByEndOfTick ==
    pc \in {"check", "done"} =>
        \A k \in DOMAIN lastSet :
            (lastSet[k].px.some /\ lastSet[k].px.at <= now) => k \notin DOMAIN storage

\* C19 witness: the loop goes on after a sweep that ran past the deadline
\* of a key, and the key is not in the store.
C19_Witness ==
    /\ pc = "check"
    /\ ~shutdown
    /\ \E k \in DOMAIN lastSet :
          /\ lastSet[k].px.some
          /\ lastSet[k].px.at < now
          /\ k \notin DOMAIN storage

\* C20: once SHUTDOWN is dispatched, the connections enumerated after the
\* issuing one are still read in that iteration of the loop: a request that
\* waits on one of them is read and answered.
C20_ShutdownAtEndOfTick ==
    [][\A c \in Conns :
        (Polling /\ shutdown /\ streams[idx + 1] = c /\ inbox[c] # <<>>) =>
            /\ inbox'[c] = <<>>
            /\ wcount'[c] = wcount[c] + 1]_vars

\* C16: parse_int on an optional + or -, one or more digits and CR LF
\* yields the Integer of that signed value (89, +32 and -1223 yield 89, 32
\* and -1223; the value is one of i64), having read up to the LF; on a text
\* whose payload, the characters before the first CR, holds a character that
\* is neither a digit nor a sign at the first place, it yields an error.
C16_ParseInt ==
    cpc = "int_done" =>
        LET t == cinput
            signed == t # <<>> /\ t[1] \in {"+", "-"}
            neg == signed /\ t[1] = "-"
            j == IF signed THEN 1 ELSE 0
            e == DigitsEnd(StrStream(t), j)
            ds == SubSeq(t, j + 1, e)
            crs == {k \in 1..Len(t) : t[k] = CR}
            payload == IF crs = {} THEN t
                       ELSE SubSeq(t, 1, (CHOOSE k \in crs : \A m \in crs : k <= m) - 1)
        IN  /\ t = <<"8", "9", CR, LF>> => cresult = Ok(Integer(89), 4)
            /\ t = <<"+", "3", "2", CR, LF>> => cresult = Ok(Integer(32), 5)
            /\ t = <<"-", "1", "2", "2", "3", CR, LF>> => cresult = Ok(Integer(0 - 1223), 7)
            /\ (/\ e > j
                /\ Len(t) >= e + 2 /\ t[e + 1] = CR /\ t[e + 2] = LF
                /\ NumeralFits(ds, IF neg THEN I64MinDigits ELSE I64MaxDigits)) =>
                  /\ cresult.kind = "ok"
                  /\ cresult.idx = e + 2
                  /\ cresult.val.t = "Integer"
                  /\ IF IsBig(ds)
                     THEN cresult.val = BigInteger(neg, StripZeros(ds))
                     ELSE cresult.val.i = (IF neg THEN 0 - 1 ELSE 1) * DigitsToNat(ds)
            /\ (\E k \in 1..Len(payload) :
                    ~IsDigit(payload[k]) /\ ~(k = 1 /\ payload[1] \in {"+", "-"})) =>
                  cresult.kind = "err"

\* C16 witness: parse_int has yielded Integer(-1223) on -1223 CR LF.
C16_Witness ==
    /\ cpc = "int_done"
    /\ cinput = <<"-", "1", "2", "2", "3", CR, LF>>
    /\ cresult = Ok(Integer(0 - 1223), 7)

\* C17: parse_bulk_string on a decimal length n, CR LF, n characters and
\* CR LF yields the BulkString of those n characters whatever they are, CR
\* and LF included; on every other text (no length, a wrong or missing
\* terminator after the length or after the n characters, a text that ends
\* before n characters are read) it yields an error.
C17_ParseBulkString ==
    cpc = "bulk_done" =>
        LET t == cinput
            e == DigitsEnd(StrStream(t), 0)
            len == SubSeq(t, 1, e)
            n == NumeralValue(len)
        IN  IF /\ e >= 1 /\ ~IsBig(len)
               /\ Len(t) >= e + n + 4
               /\ t[e + 1] = CR /\ t[e + 2] = LF
               /\ t[e + n + 3] = CR /\ t[e + n + 4] = LF
            THEN cresult = Ok(BulkString(SubSeq(t, e + 3, e + n + 2)), e + n + 4)
            ELSE cresult.kind = "err"

\* C18: parse_array on a count n, CR LF and the texts of n or more values
\* yields the Array of the first n of these values, in the order of the
\* text, having read to the end of the n-th; a value that is an array of
\* values of several types, arrays among them, is yielded as that array.
C18_ParseArray ==
    (cpc = "array_done" /\ DigitVal(cinput[1]) <= Len(cvalue.a)) =>
        LET n == DigitVal(cinput[1])
        IN  /\ cresult.kind = "ok"
            /\ cresult.val = Array(SubSeq(cvalue.a, 1, n))
            /\ Len(cresult.val.a) = n
            /\ n = Len(cvalue.a) => cresult.idx = Len(cinput)

\* C18 witness: parse_array has yielded an array of two values of which the
\* second is an array that holds an array.
C18_Witness ==
    /\ cpc = "array_done"
    /\ cresult.kind = "ok"
    /\ cresult.val = cvalue
    /\ cvalue.a = <<BulkString(<<"O", "K">>),
                    Array(<<Integer(0 - 1), Array(<<SimpleString(<<"a">>)>>)>>)>>

RECURSIVE Without(_, _, _)
\* the elements of v from place k on, those at the 0-based indices of drop
\* left out
Without(v, k, drop) ==
    IF k > Len(v) THEN <<>>
    ELSE (IF (k - 1) \in drop THEN <<>> ELSE <<v[k]>>) \o Without(v, k + 1, drop)

C22_WouldBlock ==
    /\ [][(Polling /\ last'.kind = "wouldblock" /\ idx' = idx + 1) =>
            /\ wcount' = wcount
            /\ errd' = errd
            /\ sock' = sock
            /\ streams' = streams
            /\ to_close' = to_close
            /\ storage' = storage
            /\ pc' = "poll"]_vars
    /\ [](pc \in {"sweep", "check"} =>
            \A k \in 1..Len(streams) :
                /\ sock[streams[k]] = "open" => (shutdown \/ inbox[streams[k]] = <<>>)
                /\ errd[streams[k]] \in {"none"} \cup ErrorKinds)
    /\ [][(pc = "poll" /\ pc' = "sweep") =>
            \A k \in 1..Len(streams) :
                sock[streams[k]] = "open" => \E j \in 1..Len(streams') : streams'[j] = streams[k]]_vars

\* C22 witness: the first connection had no data and nothing has been
\* written to it; the second has been answered in the same call.
C22_Witness ==
    /\ pc = "poll" /\ idx = 2
    /\ streams = <<1, 2>>
    /\ sock = <<"open", "open">>
    /\ wcount = <<0, 1>>
    /\ inbox = <<(<<>>), (<<>>)>>
    /\ Dispatched("Ping") /\ last.conn = 2

\* C23: accept puts a connection at the end of the live set and
\* poll_streams services the live set from its head: when the first
\* connection's SET has been dispatched and a GET of the same key waits on
\* the second, the GET replies the value of that SET; when a GET of a key
\* that is not in the store is read on the first connection while a SET of
\* the key waits on the second, the GET replies the empty BulkString.
C23_ServiceOrder ==
    /\ [][(pc = "accept" /\ pc' = "poll") =>
            streams' = (IF backlog = <<>> THEN streams
                        ELSE Append(streams, Head(backlog)))]_vars
    /\ [][(Polling /\ idx' # idx) =>
            (idx' = idx + 1 /\ last'.conn = streams[idx + 1])]_vars
    /\ [][(/\ Polling /\ idx = 1 /\ Len(streams) = 2
           /\ Dispatched("Set") /\ last.conn = streams[1]
           /\ ReadStep(streams[2])
           /\ inbox[streams[2]] = <<ReqGet(last.cmd.key)>>) =>
            /\ last'.kind = "cmd" /\ last'.cmd.c = "Get"
            /\ last'.reply = BulkString(last.cmd.value.value)]_vars
    /\ [][(/\ Polling /\ idx = 0 /\ Len(streams) = 2
           /\ ReadStep(streams[1])
           /\ inbox[streams[1]] = <<ReqGet(K1)>>
           /\ K1 \notin DOMAIN storage
           /\ inbox[streams[2]] # <<>>
           /\ Head(inbox[streams[2]]) \in {ReqSet(K1, V1)}
                                          \cup {ReqSetPx(K1, V2, ms) : ms \in PxValues}) =>
            /\ last'.kind = "cmd" /\ last'.cmd.c = "Get"
            /\ last'.reply = EmptyBulk]_vars

\* C23 witness: the SET of the connection accepted first has been
\* dispatched in this call of poll_streams, and the GET of the same key waits
\* on the connection accepted second, which is the next to be read.
C23_Witness ==
    /\ pc = "poll" /\ idx = 1
    /\ streams = <<1, 2>>
    /\ Dispatched("Set") /\ last.conn = 1 /\ last.cmd.key = K1
    /\ K1 \in DOMAIN storage
    /\ inbox[2] = <<ReqGet(K1)>>
    /\ ~shutdown

\* C28: the offset is 0, the run id is the one of RunIdLen characters made
\* at startup, the role is Slave when an upstream was given and Master
\* otherwise, and no step of the server changes the replication state.
C28_ReplicationFixed ==
    /\ [](/\ replication.master_repl_offset = 0
          /\ Len(replication.master_replid) = RunIdLen
          /\ replication.master_replid \in RunIds
          /\ replication.replicaof \in {NoUpstream, SomeUpstream}
          /\ replication.role = (IF replication.replicaof.some THEN "Slave" ELSE "Master"))
    /\ [][replication' = replication]_vars
    /\ [](Dispatched("Info") => last.reply = ReplicationInfo(replication))

\* C28 witness: a replica has answered INFO replication after a SET was
\* dispatched.
C28_Witness ==
    /\ Dispatched("Info")
    /\ replication.role = "Slave"
    /\ replication.replicaof = SomeUpstream
    /\ lastSet # EmptyMap
    /\ last.reply = ReplicationInfo(NewReplication(SomeUpstream, replication.master_replid))

\* C24: a SimpleString, SimpleError, Integer or Boolean that parse_next
\* returns has been read up to and including its CR LF: the text read ends
\* with CR LF, and a text that ends before the terminator is not returned
\* as a value.
C24_TerminatorConsumed ==
    (cpc = "next_done" /\ cresult.kind = "ok") =>
        /\ cresult.val.t \in {"SimpleString", "SimpleError", "Integer", "Boolean"}
        /\ cresult.idx <= Len(cinput)
        /\ cresult.idx >= 3
        /\ cinput[cresult.idx - 1] = CR
        /\ cinput[cresult.idx] = LF

\* C25: parse_int on a sign with no digit before CR LF returns an error.
C25_BareSign ==
    (cpc = "int_done" /\ cinput \in {<<"+", CR, LF>>, <<"-", CR, LF>>}) =>
        cresult.kind = "err"

\* C26: the content of a SimpleString or SimpleError that parse_next
\* returns holds no CR and no LF.
C26_NoLineBreakInSimple ==
    (cpc = "next_done" /\ cresult.kind = "ok"
        /\ cresult.val.t \in {"SimpleString", "SimpleError"}) =>
        \A k \in 1..Len(cresult.val.s) : cresult.val.s[k] \notin {CR, LF}

RECURSIVE HoldsEof(_)
\* the value is Eof or an Array that holds Eof at some depth
HoldsEof(v) ==
    \/ v.t = "Eof"
    \/ v.t = "Array" /\ \E k \in 1..Len(v.a) : HoldsEof(v.a[k])

\* C29: an Array that parse_array returns holds as many elements as its
\* count says and no Eof at any depth; on a text that ends before the last
\* of the elements parse_array returns an error.
C29_NoEofInArray ==
    cpc = "array_done" =>
        LET n == DigitVal(cinput[1])
        IN  /\ cresult.kind = "ok" =>
                /\ Len(cresult.val.a) = n
                /\ ~HoldsEof(cresult.val)
            /\ n > Len(cvalue.a) => cresult.kind = "err"

\* C27: the value the dispatch hands to the serializer for a request is
\* neither Nil nor Eof, and no request ends in the panic of the unwrap of
\* serialize.
C27_NoNilNoEofReply ==
    cpc = "answered" =>
        /\ last.kind # "panic_serialize"
        /\ last.kind = "cmd" => last.reply.t \notin {"None", "Eof"}
        /\ Dispatched("Echo") => last.cmd.payload.t # "Eof"

\* C30: no request, as elements or as bytes, is interpreted as Llen, and
\* none reaches the todo!() of the dispatch.
C30_NoLlen ==
    cpc \in {"handled", "answered"} =>
        /\ last.cmd.c \in {"Ping", "Echo", "Shutdown", "Set", "Get", "Info"}
        /\ last.kind # "panic_todo"

\* C30 witness: a request named llen has been answered with the error of
\* an unknown command.
C30_Witness ==
    /\ Handled
    /\ cvalue.a = <<SimpleString(<<"l", "l", "e", "n">>), BulkString(K1)>>
    /\ last.kind = "cmd_err"
    /\ last.bytes = <<"invalid command: '", "L", "L", "E", "N", "' provided">>

\* C31: a SET replaces the whole entry of its key, value and expiry, and
\* leaves the other entries as they are: the entry of a key in the store is
\* always the one of the last SET on the key; a key whose last SET gave no
\* expiry is in the store for good; a key whose last SET gave an expiry is,
\* after each sweep, in the store exactly when that deadline has not passed.
C31_SetReplaces ==
    /\ [][\A c \in Conns :
            (ReadStep(c) /\ last'.kind = "cmd" /\ last'.cmd.c = "Set") =>
                storage' = [x \in DOMAIN storage \cup {last'.cmd.key} |->
                               IF x = last'.cmd.key THEN last'.cmd.value
                               ELSE storage[x]]]_vars
    /\ [](\A k \in DOMAIN storage : k \in DOMAIN lastSet /\ storage[k] = lastSet[k])
    /\ [](\A k \in DOMAIN lastSet : ~lastSet[k].px.some => k \in DOMAIN storage)
    /\ [](pc \in {"check", "done"} =>
            \A k \in DOMAIN lastSet :
                lastSet[k].px.some => (k \in DOMAIN storage <=> now < lastSet[k].px.at))

\* C31 witness: the store holds K1 with an expiry that has not passed, and
\* the connection that is read next has sent SET K1 V1 with no PX.
C31_Witness ==
    /\ Polling
    /\ ~shutdown
    /\ K1 \in DOMAIN storage
    /\ storage[K1].value = V2
    /\ storage[K1].px.some /\ now < storage[K1].px.at
    /\ inbox[streams[idx + 1]] = <<ReqSet(K1, V1)>>

====
